---- MODULE Spec2Model ----
(***************************************************************************)
(* Bozloader upload review workflow (src/app/main.py).                     *)
(*                                                                         *)
(* Every HTTP request is a process that runs one handler (upload_file,     *)
(* approve_upload, deny_upload) step by step.  The steps are the places    *)
(* where the handler touches shared state: the uploads table, the pending  *)
(* and Plex directories, the Plex server and the notification channels.    *)
(* Flask serves requests from several workers, so steps of different       *)
(* requests interleave.  Steps that touch nothing shared (the checks on   *)
(* the request, the Plex scan, the notifications) are taken together with  *)
(* the shared step before them.                                            *)
(*                                                                         *)
(* A filename is the sequence of its '.'-separated segments:               *)
(* "Movie.mkv" is <<"Movie", "mkv">>, "" is <<"">>.                        *)
(***************************************************************************)
EXTENDS Integers, Sequences, FiniteSets, TLC

\* ---------------------------------------------------------------- bounds
MaxUploads == 2
NumProcs == 2
\* routes.py reviews that reach their UPDATE, per upload
MaxReviews == 2

Procs == 1..NumProcs
Ids == 1..MaxUploads

\* ---------------------------------------------------------------- inputs
Filenames ==
    { <<"My Movie", "MKV">>, <<"notes", "txt">>,
      <<"Movie", "mkv", "txt">>, <<"mkv">>, <<"">> }
MediaTypeInputs == {"tv", "music"}
NotesInputs == {"wrong format"}
PasswordInputs == {"admin", "letmein"}
NewPasswordInputs == {"admin", "abc", "letmein"}

NULL == "NULL"
\* reviewed_date while it is NULL; a written stamp is 1 or more
NoDate == 0
NoRow == [absent |-> TRUE]
\* an outbound call made without a timeout argument
NoTimeout == 0

\* ---------------------------------------------------------- pure helpers
allowed_extensions ==
    {"mp4", "mkv", "avi", "mov", "wmv", "flv", "webm",
     "m4v", "mpg", "mpeg", "ts", "vob", "iso"}

\* str.lower() on the segments that occur
Lower(s) == CASE s = "MKV" -> "mkv"
              [] s = "My Movie" -> "my movie"
              [] s = "Movie" -> "movie"
              [] OTHER -> s

\* filename.rsplit('.', 1)[1]: the text after the last '.'
RSplitExt(filename) == filename[Len(filename)]

\* '.' in filename
HasDot(filename) == Len(filename) > 1

\* plausible slip: split('.')[1] instead of rsplit('.', 1)[1]
allowed_file_first_dot(filename) ==
    HasDot(filename) /\ Lower(filename[2]) \in allowed_extensions

allowed_file(filename) ==
    HasDot(filename) /\ Lower(RSplitExt(filename)) \in allowed_extensions

\* werkzeug secure_filename: whitespace becomes '_'
SecureSeg(s) == IF s = "My Movie" THEN "My_Movie" ELSE s
secure_filename(filename) == [i \in DOMAIN filename |-> SecureSeg(filename[i])]

\* directory chosen from media_type (anything but 'tv' is a movie)
PendingDir(media_type) == IF media_type = "tv" THEN "pending_tv" ELSE "pending_movies"
PlexDir(media_type) == IF media_type = "tv" THEN "plex_tv" ELSE "plex_movies"

\* source_dir / upload['filename']
SourcePath(row) == [dir |-> PendingDir(row.media_type),
                    token |-> row.filename.token, name |-> row.filename.name]
\* dest_dir / upload['original_filename']
DestPath(row) == [dir |-> PlexDir(row.media_type), name |-> row.original_filename]

\* ------------------------------------------------------------------ state
VARIABLES
    uploads,       \* the uploads table: id -> row or NoRow
    pendingFiles,  \* files in the pending directories
    plexFiles,     \* files in the Plex directories: path -> whose bytes
    next_uuid,     \* uuid.uuid4(): the next fresh id
    succeeded,     \* per upload id: how many review requests were answered
                   \* with success (lines 354 and 399)
    effects,       \* per upload id: how often the review handlers moved or
                   \* deleted its file, called trigger_plex_scan and called
                   \* send_approval_notification / send_denial_notification
    session,       \* the Flask session of the admin's browser
    admin,         \* the row of the admin table
    pc,            \* per request: where its handler stands
    req            \* per request: the handler's locals and its response

vars == <<uploads, pendingFiles, plexFiles, next_uuid, succeeded, effects, session, admin,
          pc, req>>

\* a session nobody has logged in with; last remembers the request that
\* wrote the session last
NewSession == [admin_logged_in |-> FALSE, last |-> "none"]
NoEffects == [file_ops |-> 0, scans |-> 0, notifications |-> 0]

\* channels: the channels the configuration enables for a notification and
\* those a send was attempted on; log: the handler's steps in their order
NoChannels == [enabled |-> {}, attempted |-> {}]

IdleReq == [handler |-> "none", id |-> 0, filename |-> <<"">>, media_type |-> "movie",
            notes |-> "", upload |-> NoRow, resp |-> "none", fx |-> {},
            src |-> "unseen", scan |-> "none", notified |-> "none",
            log |-> <<>>, channels |-> NoChannels]

\* hashlib.sha256(password.encode()).hexdigest()
hash_password(password) == <<"sha256", password>>

\* The admin row init_db creates carries the hash of the default password
\* and must_change_password = 1.
admin_password_hash == hash_password("admin")

Init ==
    /\ uploads = [i \in Ids |-> NoRow]
    /\ pendingFiles = {}
    /\ plexFiles = <<>>
    /\ next_uuid = 1
    /\ succeeded = [i \in Ids |-> 0]
    /\ effects = [i \in Ids |-> NoEffects]
    /\ session = NewSession
    /\ admin = [password_hash |-> admin_password_hash, must_change_password |-> 1]
    /\ pc = [p \in Procs |-> "idle"]
    /\ req = [p \in Procs |-> IdleReq]

\* The workers are interchangeable: a new request is taken by the first
\* free one.
Free(p) == pc[p] = "idle" /\ \A q \in Procs : q < p => pc[q] # "idle"

\* another worker holds a request on upload id
Busy(p, id) == \E q \in Procs \ {p} : pc[q] # "idle" /\ req[q].id = id

Finish(p, r, resp) ==
    /\ pc' = [pc EXCEPT ![p] = "done"]
    /\ req' = [req EXCEPT ![p] = [r EXCEPT !.resp = resp]]

Goto(p, r, label) ==
    /\ pc' = [pc EXCEPT ![p] = label]
    /\ req' = [req EXCEPT ![p] = r]

\* ------------------------------------------------ notifications.py sinks
\* Config.ADMIN_EMAILS
AdminEmails == {"admin1", "admin2"}

\* The channels an upload notification goes to; Discord when
\* Config.DISCORD_ENABLED.
UploadChannels(discord_enabled) ==
    {"uploader"} \cup AdminEmails \cup (IF discord_enabled THEN {"discord"} ELSE {})

\* send_upload_notification: every send sits in its own try/except, so
\* every channel is attempted and nothing is raised to the caller.
\* failing = the channels whose send raises.
send_upload_notification(discord_enabled, failing) ==
    [attempted |-> UploadChannels(discord_enabled), raised |-> FALSE]

\* The channels a review notification goes to.
ReviewChannels(discord_enabled) ==
    {"uploader"} \cup (IF discord_enabled THEN {"discord"} ELSE {})

\* send_approval_notification and send_denial_notification: the uploader's
\* email is sent outside any try, so its failure is raised and the Discord
\* message is skipped; the Discord send sits in its own try/except.
send_review_notification(discord_enabled, failing) ==
    IF "uploader" \in failing
    THEN [attempted |-> {"uploader"}, raised |-> TRUE]
    ELSE [attempted |-> ReviewChannels(discord_enabled), raised |-> FALSE]

\* What a request remembers of its notification: whether a send failed.
Outcome(out, failing) ==
    IF out.raised \/ failing \cap out.attempted # {} THEN "failed" ELSE "sent"

\* one more of each kind in kinds counted for upload id
Counted(id, kinds) ==
    [effects EXCEPT ![id] = [k \in DOMAIN @ |-> IF k \in kinds THEN @[k] + 1 ELSE @[k]]]

\* ---------------------------------------------------------- admin session
\* plausible slip: the decorator lets every session through
admin_required_any(cookie) == TRUE

\* Lines 105-112: the decorated handler runs only for a session that has
\* admin_logged_in.
admin_required(cookie) == cookie.admin_logged_in

\* Lines 208-234: a POST to /admin/login.  A session that is logged in
\* already is redirected to the panel; otherwise the session gets
\* admin_logged_in when the password's hash is the stored one.
admin_login(password) ==
    /\ ~session.admin_logged_in
    /\ session' = IF admin.password_hash = hash_password(password)
                  THEN [admin_logged_in |-> TRUE, last |-> "login"]
                  ELSE [session EXCEPT !.last = "login_failed"]
    /\ UNCHANGED <<uploads, pendingFiles, plexFiles, next_uuid, succeeded, effects, pc, req, admin>>

\* plausible slip: only the confirmation is compared
valid_new_password_confirmed_only(new_password, confirm_password) ==
    new_password = confirm_password

\* Lines 249-254: at least 6 characters, equal to the confirmation, and not
\* the default password.
valid_new_password(new_password, confirm_password) ==
    /\ ~(Len(new_password) < 6)
    /\ ~(new_password # confirm_password)
    /\ ~(new_password = "admin")

\* Lines 237-265: a POST to /admin/change-password, behind admin_required.
\* A valid new password is stored and must_change_password is cleared.
admin_change_password(new_password, confirm_password) ==
    /\ admin' = IF admin_required(session)
                   /\ valid_new_password(new_password, confirm_password)
                THEN [password_hash |-> hash_password(new_password),
                      must_change_password |-> 0]
                ELSE admin
    /\ UNCHANGED <<uploads, pendingFiles, plexFiles, next_uuid, succeeded, effects, session,
                   pc, req>>

\* Lines 268-273: session.pop('admin_logged_in', None)
admin_logout ==
    /\ session' = [admin_logged_in |-> FALSE, last |-> "logout"]
    /\ UNCHANGED <<uploads, pendingFiles, plexFiles, next_uuid, succeeded, effects, pc, req, admin>>

\* ------------------------------------------------------------ upload_file
\* Lines 149-174: the checks on the request, the fresh id, the target path.
UploadBegin(p) ==
    /\ Free(p)
    /\ \E has_file \in BOOLEAN, filename \in Filenames, media_type \in MediaTypeInputs :
         LET r == [IdleReq EXCEPT !.handler = "upload", !.filename = filename,
                                  !.media_type = media_type]
         IN  IF ~has_file \/ filename = <<"">>
             THEN Finish(p, [IdleReq EXCEPT !.handler = "upload"], "no_file_400")
                  /\ UNCHANGED next_uuid
             ELSE IF ~allowed_file(filename)
             THEN Finish(p, [IdleReq EXCEPT !.handler = "upload", !.filename = filename],
                         "type_not_allowed_400")
                  /\ UNCHANGED next_uuid
             ELSE /\ next_uuid <= MaxUploads
                  /\ Goto(p, [r EXCEPT !.id = next_uuid], "u_save")
                  /\ next_uuid' = next_uuid + 1
    /\ UNCHANGED <<uploads, pendingFiles, plexFiles, succeeded, effects, session, admin>>

\* plausible slip: the stored name is secure_name alone, without the id
UploadPath_no_prefix(r) == [dir |-> PendingDir(r.media_type), token |-> 0,
                            name |-> secure_filename(r.filename)]

\* f"{upload_id}_{secure_name}" in the pending directory of media_type
UploadPath(r) == [dir |-> PendingDir(r.media_type), token |-> r.id,
                  name |-> secure_filename(r.filename)]

\* plausible slip: the except clause logs and falls through to the INSERT
UploadSave_fallthrough(p) ==
    /\ pc[p] = "u_save"
    /\ \/ /\ pendingFiles' = pendingFiles \cup {UploadPath(req[p])}
          /\ Goto(p, [req[p] EXCEPT !.fx = @ \cup {"save"},
                                    !.log = @ \o <<"save">>], "u_insert")
       \/ /\ UNCHANGED pendingFiles
          /\ Goto(p, req[p], "u_insert")
    /\ UNCHANGED <<uploads, plexFiles, next_uuid, succeeded, effects, session, admin>>

\* Lines 176-180: file.save and os.path.getsize; either may raise.
UploadSave(p) ==
    /\ pc[p] = "u_save"
    /\ \/ /\ pendingFiles' = pendingFiles \cup {UploadPath(req[p])}
          /\ Goto(p, [req[p] EXCEPT !.fx = @ \cup {"save"},
                                    !.log = @ \o <<"save">>], "u_insert")
       \/ /\ UNCHANGED pendingFiles
          /\ Finish(p, req[p], "save_failed_500")
    /\ UNCHANGED <<uploads, plexFiles, next_uuid, succeeded, effects, session, admin>>

\* The row of lines 183-186: status defaults to 'pending', reviewed_date
\* and notes to NULL.
NewRow(r) ==
    [filename |-> [token |-> r.id, name |-> secure_filename(r.filename)],
     original_filename |-> r.filename,
     media_type |-> r.media_type,
     status |-> "pending",
     reviewed_date |-> NoDate,
     notes |-> NULL]

\* plausible slip: the notification is sent outside any try, so a failing
\* send ends the request with an error
UploadInsert_propagate(p) ==
    /\ pc[p] = "u_insert"
    /\ uploads' = [uploads EXCEPT ![req[p].id] = NewRow(req[p])]
    /\ \E discord_enabled \in BOOLEAN :
       \E failing \in SUBSET UploadChannels(discord_enabled) :
         LET r == [req[p] EXCEPT !.notified = IF failing # {} THEN "failed" ELSE "sent",
                                 !.fx = @ \cup {"insert", "notify"},
                                 !.log = @ \o <<"insert", "notify">>]
         IN  Finish(p, r, IF failing # {} THEN "error_500" ELSE "ok")
    /\ UNCHANGED <<pendingFiles, plexFiles, next_uuid, succeeded, effects, session, admin>>

\* Lines 182-203: INSERT INTO uploads ...; commit; then
\* send_upload_notification inside try/except; then the success response.
UploadInsert(p) ==
    /\ pc[p] = "u_insert"
    /\ uploads' = [uploads EXCEPT ![req[p].id] = NewRow(req[p])]
    /\ \E discord_enabled \in BOOLEAN :
       \E failing \in SUBSET UploadChannels(discord_enabled) :
         LET out == send_upload_notification(discord_enabled, failing)
             r == [req[p] EXCEPT !.notified = Outcome(out, failing),
                                 !.channels = [enabled |-> UploadChannels(discord_enabled),
                                               attempted |-> out.attempted],
                                 !.fx = @ \cup {"insert", "notify"},
                                 !.log = @ \o <<"insert", "notify">>]
         IN  Finish(p, r, "ok")
    /\ UNCHANGED <<pendingFiles, plexFiles, next_uuid, succeeded, effects, session, admin>>

\* ------------------------------------------------- approve_upload / deny
\* plausible slip: the status check is left out
Reviewable_any(row) == TRUE

\* plausible slip: only a denied upload is refused a second review
Reviewable_not_denied(row) == row.status # "denied"

\* Lines 312 and 369: only a row whose status is 'pending' is reviewed.
Reviewable(row) == row.status = "pending"

\* plausible slip: a missing row is taken for one that is not pending
ApproveBegin_missing_is_processed(p, id) ==
    /\ Free(p)
    /\ LET r == [IdleReq EXCEPT !.handler = "approve", !.id = id, !.upload = uploads[id]]
       IN  IF ~admin_required(session)
           THEN Finish(p, [IdleReq EXCEPT !.handler = "approve", !.id = id],
                       "login_redirect_302")
           ELSE IF uploads[id] = NoRow \/ ~Reviewable(uploads[id])
           THEN Finish(p, r, "already_processed_400")
           ELSE Goto(p, r, "a_move")
    /\ UNCHANGED <<uploads, pendingFiles, plexFiles, next_uuid, succeeded, effects, session, admin>>

\* Lines 301-328: the admin_required decorator; SELECT the row, 404 without one, 400 when it is already
\* processed, else the paths are computed from the row that was read.
ApproveBegin(p, id) ==
    /\ Free(p)
    /\ LET r == [IdleReq EXCEPT !.handler = "approve", !.id = id, !.upload = uploads[id]]
       IN  IF ~admin_required(session)
           THEN Finish(p, [IdleReq EXCEPT !.handler = "approve", !.id = id],
                       "login_redirect_302")
           ELSE IF uploads[id] = NoRow THEN Finish(p, r, "not_found_404")
           ELSE IF ~Reviewable(uploads[id]) THEN Finish(p, r, "already_processed_400")
           ELSE Goto(p, r, "a_move")
    /\ UNCHANGED <<uploads, pendingFiles, plexFiles, next_uuid, succeeded, effects, session, admin>>

\* plausible slip: the except clause logs and falls through to the UPDATE
ApproveMove_fallthrough(p) ==
    /\ pc[p] = "a_move"
    /\ LET src == SourcePath(req[p].upload)
           dst == DestPath(req[p].upload)
       IN  \/ /\ src \in pendingFiles
              /\ pendingFiles' = pendingFiles \ {src}
              /\ plexFiles' = (dst :> src.token) @@ plexFiles
              /\ effects' = Counted(req[p].id, {"file_ops"})
              /\ Goto(p, [req[p] EXCEPT !.src = "moved", !.fx = @ \cup {"move"},
                                        !.log = @ \o <<"move">>], "a_update")
           \/ /\ UNCHANGED <<pendingFiles, plexFiles, effects>>
              /\ Goto(p, [req[p] EXCEPT !.src = IF src \in pendingFiles THEN "kept"
                                                ELSE "absent"], "a_update")
    /\ UNCHANGED <<uploads, next_uuid, succeeded, session, admin>>

\* Lines 330-333: shutil.move(source_path, dest_path).  It raises when the
\* source is missing and may raise for any other reason (permissions, a
\* full or read-only destination); an existing destination file is replaced.
ApproveMove(p) ==
    /\ pc[p] = "a_move"
    /\ LET src == SourcePath(req[p].upload)
           dst == DestPath(req[p].upload)
       IN  \/ /\ src \in pendingFiles
              /\ pendingFiles' = pendingFiles \ {src}
              /\ plexFiles' = (dst :> src.token) @@ plexFiles
              /\ effects' = Counted(req[p].id, {"file_ops"})
              /\ Goto(p, [req[p] EXCEPT !.src = "moved", !.fx = @ \cup {"move"},
                                        !.log = @ \o <<"move">>], "a_update")
           \/ /\ UNCHANGED <<pendingFiles, plexFiles, effects>>
              /\ Finish(p, [req[p] EXCEPT !.src = IF src \in pendingFiles THEN "kept"
                                                  ELSE "absent"], "move_failed_500")
    /\ UNCHANGED <<uploads, next_uuid, succeeded, session, admin>>

\* datetime.now().isoformat() as written to a row: time only moves on, so
\* each write to a row carries a later stamp than the one before it.  The
\* stamp is the number of the write.
Now(previous) == previous + 1

\* plausible slip: a failed scan or notification undoes the approval
ApproveUpdate_rollback(p) ==
    /\ pc[p] = "a_update"
    /\ \E scanned \in BOOLEAN, discord_enabled \in BOOLEAN :
       \E failing \in SUBSET ReviewChannels(discord_enabled) :
         LET out == send_review_notification(discord_enabled, failing)
             r == [req[p] EXCEPT !.scan = IF scanned THEN "ok" ELSE "failed",
                                 !.notified = Outcome(out, failing),
                                 !.channels = [enabled |-> ReviewChannels(discord_enabled),
                                               attempted |-> out.attempted],
                                 !.fx = @ \cup {"update", "scan", "notify"},
                                 !.log = @ \o <<"update", "scan", "notify">>]
             undone == ~scanned \/ Outcome(out, failing) = "failed"
         IN  /\ uploads' = [uploads EXCEPT ![req[p].id] =
                              IF undone THEN @
                              ELSE [@ EXCEPT !.status = "approved",
                                             !.reviewed_date = Now(@)]]
             /\ Finish(p, r, IF undone THEN "error_500" ELSE "ok")
             /\ succeeded' = [succeeded EXCEPT ![req[p].id] =
                                IF undone THEN @ ELSE @ + 1]
    /\ effects' = Counted(req[p].id, {"scans", "notifications"})
    /\ UNCHANGED <<pendingFiles, plexFiles, next_uuid, session, admin>>

\* Lines 335-354: UPDATE uploads SET status = 'approved', reviewed_date = now
\* WHERE id = ? (the statement does not look at the current status); commit;
\* trigger_plex_scan, which returns True or False and never raises; then
\* send_approval_notification inside try/except; then the success response.
ApproveUpdate(p) ==
    /\ pc[p] = "a_update"
    /\ uploads' = [uploads EXCEPT ![req[p].id] =
                     [@ EXCEPT !.status = "approved", !.reviewed_date = Now(@)]]
    /\ \E scanned \in BOOLEAN, discord_enabled \in BOOLEAN :
       \E failing \in SUBSET ReviewChannels(discord_enabled) :
         LET out == send_review_notification(discord_enabled, failing)
             r == [req[p] EXCEPT !.scan = IF scanned THEN "ok" ELSE "failed",
                                 !.notified = Outcome(out, failing),
                                 !.channels = [enabled |-> ReviewChannels(discord_enabled),
                                               attempted |-> out.attempted],
                                 !.fx = @ \cup {"update", "scan", "notify"},
                                 !.log = @ \o <<"update", "scan", "notify">>]
         IN  Finish(p, r, "ok")
    /\ succeeded' = [succeeded EXCEPT ![req[p].id] = @ + 1]
    /\ effects' = Counted(req[p].id, {"scans", "notifications"})
    /\ UNCHANGED <<pendingFiles, plexFiles, next_uuid, session, admin>>

\* Lines 361-377 of deny_upload: as ApproveBegin, with the notes of the form.
DenyBegin(p, id) ==
    /\ Free(p)
    /\ \E notes \in NotesInputs :
         LET r == [IdleReq EXCEPT !.handler = "deny", !.id = id, !.notes = notes,
                                  !.upload = uploads[id]]
         IN  IF ~admin_required(session)
             THEN Finish(p, [IdleReq EXCEPT !.handler = "deny", !.id = id],
                         "login_redirect_302")
             ELSE IF uploads[id] = NoRow THEN Finish(p, r, "not_found_404")
             ELSE IF ~Reviewable(uploads[id]) THEN Finish(p, r, "already_processed_400")
             ELSE Goto(p, r, "d_delete")
    /\ UNCHANGED <<uploads, pendingFiles, plexFiles, next_uuid, succeeded, effects, session, admin>>

\* plausible slip: os.remove without the exists() test and without the try,
\* so a missing file or a failing removal ends the request with an error
DenyDelete_strict(p) ==
    /\ pc[p] = "d_delete"
    /\ LET src == SourcePath(req[p].upload)
       IN  \/ /\ src \in pendingFiles
              /\ pendingFiles' = pendingFiles \ {src}
              /\ effects' = Counted(req[p].id, {"file_ops"})
              /\ Goto(p, [req[p] EXCEPT !.src = "removed", !.fx = @ \cup {"delete"},
                                        !.log = @ \o <<"delete">>],
                      "d_update")
           \/ /\ UNCHANGED <<pendingFiles, effects>>
              /\ Finish(p, [req[p] EXCEPT !.src = IF src \in pendingFiles THEN "kept"
                                                  ELSE "absent"], "delete_failed_500")
    /\ UNCHANGED <<uploads, plexFiles, next_uuid, succeeded, session, admin>>

\* Lines 379-383: os.remove if the file exists; a failure of the removal is
\* logged and the handler goes on.
DenyDelete(p) ==
    /\ pc[p] = "d_delete"
    /\ LET src == SourcePath(req[p].upload)
       IN  IF src \in pendingFiles
           THEN \/ /\ pendingFiles' = pendingFiles \ {src}
                   /\ effects' = Counted(req[p].id, {"file_ops"})
                   /\ Goto(p, [req[p] EXCEPT !.src = "removed", !.fx = @ \cup {"delete"},
                                             !.log = @ \o <<"delete">>],
                           "d_update")
                \/ /\ UNCHANGED <<pendingFiles, effects>>
                   /\ Goto(p, [req[p] EXCEPT !.src = "kept"], "d_update")
           ELSE /\ UNCHANGED <<pendingFiles, effects>>
                /\ Goto(p, [req[p] EXCEPT !.src = "absent"], "d_update")
    /\ UNCHANGED <<uploads, plexFiles, next_uuid, succeeded, session, admin>>

\* Lines 385-399: UPDATE uploads SET status = 'denied', reviewed_date = now,
\* notes = ? WHERE id = ?; commit; then send_denial_notification inside
\* try/except; then the success response.
DenyUpdate(p) ==
    /\ pc[p] = "d_update"
    /\ uploads' = [uploads EXCEPT ![req[p].id] =
                     [@ EXCEPT !.status = "denied", !.reviewed_date = Now(@),
                               !.notes = req[p].notes]]
    /\ \E discord_enabled \in BOOLEAN :
       \E failing \in SUBSET ReviewChannels(discord_enabled) :
         LET out == send_review_notification(discord_enabled, failing)
             r == [req[p] EXCEPT !.notified = Outcome(out, failing),
                                 !.channels = [enabled |-> ReviewChannels(discord_enabled),
                                               attempted |-> out.attempted],
                                 !.fx = @ \cup {"update", "notify"},
                                 !.log = @ \o <<"update", "notify">>]
         IN  Finish(p, r, "ok")
    /\ succeeded' = [succeeded EXCEPT ![req[p].id] = @ + 1]
    /\ effects' = Counted(req[p].id, {"notifications"})
    /\ UNCHANGED <<pendingFiles, plexFiles, next_uuid, session, admin>>

\* The response has been delivered; the worker takes the next request.
Return(p) ==
    /\ pc[p] = "done"
    /\ pc' = [pc EXCEPT ![p] = "idle"]
    /\ req' = [req EXCEPT ![p] = IdleReq]
    /\ UNCHANGED <<uploads, pendingFiles, plexFiles, next_uuid, succeeded, effects, session, admin>>

\* Somebody outside the application removes a file from a pending directory
\* (the case source_path.exists() in deny_upload provides for).
ExternalRemove(f) ==
    /\ f \in pendingFiles
    /\ pendingFiles' = pendingFiles \ {f}
    /\ UNCHANGED <<uploads, plexFiles, next_uuid, succeeded, effects, session, pc, req, admin>>

\* --------------------------------------------- servers that never answer
Servers == {"smtp", "discord", "plex"}

\* the server a notification channel is reached through
ServerOf(channel) == IF channel = "discord" THEN "discord" ELSE "smtp"

\* The timeout in seconds an outbound call is made with: urlopen(req,
\* timeout=10) in plex_integration.py; smtplib.SMTP(server, port) and
\* urlopen(req) in notifications.py pass none.
call_timeout(server) == IF server = "plex" THEN 10 ELSE NoTimeout

\* A call to a server that never answers returns, with a failure, only when
\* it was made with a timeout.  silent = the servers that never answer.
Blocks(attempted, silent) ==
    \E channel \in attempted :
      /\ ServerOf(channel) \in silent
      /\ call_timeout(ServerOf(channel)) = NoTimeout

\* the request stays inside the call for ever
Block(p, r) ==
    /\ pc' = [pc EXCEPT ![p] = "blocked"]
    /\ req' = [req EXCEPT ![p] = r]

\* upload_file, lines 182-197, when send_upload_notification never returns
UploadNotifyBlocks(p) ==
    /\ pc[p] = "u_insert"
    /\ uploads' = [uploads EXCEPT ![req[p].id] = NewRow(req[p])]
    /\ \E discord_enabled \in BOOLEAN, silent \in SUBSET Servers :
       \E failing \in SUBSET UploadChannels(discord_enabled) :
         /\ Blocks(send_upload_notification(discord_enabled, failing).attempted, silent)
         /\ Block(p, [req[p] EXCEPT !.fx = @ \cup {"insert"},
                                    !.log = @ \o <<"insert">>])
    /\ UNCHANGED <<pendingFiles, plexFiles, next_uuid, succeeded, effects, session, admin>>

\* approve_upload, lines 335-352, when send_approval_notification never
\* returns; the scan before it has returned, a silent Plex after 10 seconds
ApproveNotifyBlocks(p) ==
    /\ pc[p] = "a_update"
    /\ uploads' = [uploads EXCEPT ![req[p].id] =
                     [@ EXCEPT !.status = "approved", !.reviewed_date = Now(@)]]
    /\ \E discord_enabled \in BOOLEAN, silent \in SUBSET Servers :
       \E failing \in SUBSET ReviewChannels(discord_enabled) :
         /\ Blocks(send_review_notification(discord_enabled, failing).attempted, silent)
         /\ Block(p, [req[p] EXCEPT !.fx = @ \cup {"update", "scan"},
                                    !.log = @ \o <<"update", "scan">>])
    /\ effects' = Counted(req[p].id, {"scans", "notifications"})
    /\ UNCHANGED <<pendingFiles, plexFiles, next_uuid, succeeded, session, admin>>

\* deny_upload, lines 385-397, when send_denial_notification never returns
DenyNotifyBlocks(p) ==
    /\ pc[p] = "d_update"
    /\ uploads' = [uploads EXCEPT ![req[p].id] =
                     [@ EXCEPT !.status = "denied", !.reviewed_date = Now(@),
                               !.notes = req[p].notes]]
    /\ \E discord_enabled \in BOOLEAN, silent \in SUBSET Servers :
       \E failing \in SUBSET ReviewChannels(discord_enabled) :
         /\ Blocks(send_review_notification(discord_enabled, failing).attempted, silent)
         /\ Block(p, [req[p] EXCEPT !.fx = @ \cup {"update"},
                                    !.log = @ \o <<"update">>])
    /\ effects' = Counted(req[p].id, {"notifications"})
    /\ UNCHANGED <<pendingFiles, plexFiles, next_uuid, succeeded, session, admin>>

\* ---------------------------------------------------------------- routes.py
\* The handlers of routes.py work on the same table and directories.  Ids
\* are AUTOINCREMENT integers (next_uuid is the next one), the stored
\* filename is prefixed with the timestamp of the upload in seconds, the row
\* has no reviewed_date, and notes are the uploader's.  Its send_email,
\* send_discord_notification and trigger_plex_scan catch every exception.

\* datetime.now().strftime('%Y%m%d_%H%M%S') of the latest upload so far
LastStamp ==
    LET stamps == {uploads[id].filename.token : id \in {i \in Ids : uploads[i] # NoRow}}
    IN  IF stamps = {} THEN 0 ELSE CHOOSE t \in stamps : \A u \in stamps : u <= t

\* The timestamp of a new upload: the second of the latest upload, or a
\* later one.
StampInputs == {t \in {LastStamp, LastStamp + 1} : t >= 1}

\* routes.py lines 230-293: upload.  No check of the extension; file.save
\* and os.path.getsize are not in a try, so their failure ends the request
\* before the INSERT.
upload ==
    /\ \E has_file \in BOOLEAN, filename \in Filenames, media_type \in MediaTypeInputs,
          stamp \in StampInputs, saved \in BOOLEAN :
         LET path == [dir |-> PendingDir(media_type), token |-> stamp,
                      name |-> secure_filename(filename)]
             row == [filename |-> [token |-> stamp, name |-> secure_filename(filename)],
                     original_filename |-> filename,
                     media_type |-> media_type,
                     status |-> "pending",
                     notes |-> ""]
         IN  IF ~has_file \/ filename = <<"">>
             THEN UNCHANGED <<uploads, pendingFiles, next_uuid>>
             ELSE IF ~saved
             THEN UNCHANGED <<uploads, pendingFiles, next_uuid>>
             ELSE /\ next_uuid <= MaxUploads
                  /\ pendingFiles' = pendingFiles \cup {path}
                  /\ uploads' = [uploads EXCEPT ![next_uuid] = row]
                  /\ next_uuid' = next_uuid + 1
    /\ UNCHANGED <<plexFiles, succeeded, effects, session, pc, req, admin>>

\* routes.py lines 391-440: approve.  No look at the status; shutil.move,
\* the UPDATE and the notifications sit in one try, so a failing move skips
\* the rest.
approve(id) ==
    /\ IF ~admin_required(session) \/ uploads[id] = NoRow
       THEN UNCHANGED <<uploads, pendingFiles, plexFiles, effects>>
       ELSE LET src == SourcePath(uploads[id])
                dst == DestPath(uploads[id])
            IN  \/ /\ src \in pendingFiles
                   /\ effects[id].notifications < MaxReviews
                   /\ pendingFiles' = pendingFiles \ {src}
                   /\ plexFiles' = (dst :> src.token) @@ plexFiles
                   /\ uploads' = [uploads EXCEPT ![id].status = "approved"]
                   /\ effects' = Counted(id, {"file_ops", "scans", "notifications"})
                \/ UNCHANGED <<uploads, pendingFiles, plexFiles, effects>>
    /\ UNCHANGED <<next_uuid, succeeded, session, pc, req, admin>>

\* routes.py lines 443-483: deny.  No look at the status; os.remove when the
\* file exists, the UPDATE and the notifications sit in one try, so a
\* failing removal skips the rest.
deny(id) ==
    /\ IF ~admin_required(session) \/ uploads[id] = NoRow
       THEN UNCHANGED <<uploads, pendingFiles, effects>>
       ELSE LET src == SourcePath(uploads[id])
            IN  \/ /\ src \in pendingFiles
                   /\ effects[id].notifications < MaxReviews
                   /\ pendingFiles' = pendingFiles \ {src}
                   /\ uploads' = [uploads EXCEPT ![id].status = "denied"]
                   /\ effects' = Counted(id, {"file_ops", "notifications"})
                \/ /\ src \in pendingFiles
                   /\ UNCHANGED <<uploads, pendingFiles, effects>>
                \/ /\ src \notin pendingFiles
                   /\ effects[id].notifications < MaxReviews
                   /\ UNCHANGED pendingFiles
                   /\ uploads' = [uploads EXCEPT ![id].status = "denied"]
                   /\ effects' = Counted(id, {"notifications"})
    /\ UNCHANGED <<plexFiles, next_uuid, succeeded, session, pc, req, admin>>

\* ---------------------------------------------------------- specifications
\* A response is delivered as soon as it is ready: no other step comes
\* between a handler's last statement and its return.
Quiet == \A q \in Procs : pc[q] # "done"

Work(p) ==
    \/ UploadSave(p)
    \/ UploadInsert(p)
    \/ ApproveMove(p)
    \/ ApproveUpdate(p)
    \/ DenyDelete(p)
    \/ DenyUpdate(p)

\* Requests arrive at any time and their steps interleave freely.
Next ==
    \/ \E p \in Procs : Quiet /\ UploadBegin(p)
    \/ \E p \in Procs, id \in Ids : Quiet /\ ApproveBegin(p, id)
    \/ \E p \in Procs, id \in Ids : Quiet /\ DenyBegin(p, id)
    \/ \E p \in Procs : Quiet /\ Work(p)
    \/ \E p \in Procs : Return(p)
    \/ \E f \in pendingFiles : Quiet /\ ExternalRemove(f)
    \/ \E password \in PasswordInputs : Quiet /\ admin_login(password)
    \/ Quiet /\ admin_logout

Spec == Init /\ [][Next]_vars

\* Requests on one upload id never overlap: a review request on an id
\* starts, and a pending file of an id is removed from outside, only while
\* no other request on that id is in progress.  Requests on different ids
\* still interleave.
NextSeq ==
    \/ \E p \in Procs : Quiet /\ UploadBegin(p)
    \/ \E p \in Procs, id \in Ids : Quiet /\ ~Busy(p, id) /\ ApproveBegin(p, id)
    \/ \E p \in Procs, id \in Ids : Quiet /\ ~Busy(p, id) /\ DenyBegin(p, id)
    \/ \E p \in Procs : Quiet /\ Work(p)
    \/ \E p \in Procs : Return(p)
    \/ \E f \in pendingFiles : Quiet /\ ~Busy(0, f.token) /\ ExternalRemove(f)
    \/ \E password \in PasswordInputs : Quiet /\ admin_login(password)
    \/ Quiet /\ admin_logout

SpecSeq == Init /\ [][NextSeq]_vars

\* As SpecSeq, with servers that may never answer.  Every worker thread is
\* scheduled again and again, so a request that can take its next step does
\* take it, and a response that is ready is delivered.
NextLive ==
    \/ NextSeq
    \/ \E p \in Procs : Quiet /\ UploadNotifyBlocks(p)
    \/ \E p \in Procs : Quiet /\ ApproveNotifyBlocks(p)
    \/ \E p \in Procs : Quiet /\ DenyNotifyBlocks(p)

\* As SpecSeq, with the admin changing the password.
NextAdmin ==
    \/ NextSeq
    \/ \E new_password \in NewPasswordInputs, confirm_password \in NewPasswordInputs :
         Quiet /\ admin_change_password(new_password, confirm_password)

SpecAdmin == Init /\ [][NextAdmin]_vars

\* The application of routes.py: its calls one after the other.
NextRoutes ==
    \/ upload
    \/ \E id \in Ids : approve(id)
    \/ \E id \in Ids : deny(id)
    \/ \E password \in PasswordInputs : admin_login(password)
    \/ admin_logout

SpecRoutes == Init /\ [][NextRoutes]_vars

SpecLive ==
    /\ Init
    /\ [][NextLive]_vars
    /\ \A p \in Procs : SF_vars(Quiet /\ Work(p)) /\ WF_vars(Return(p))

\* ------------------------------------------------------------------ claims
Done(p, handler) == pc[p] = "done" /\ req[p].handler = handler
Review(p) == pc[p] = "done" /\ req[p].handler \in {"approve", "deny"}

\* C1: while requests on one upload id do not overlap, a row that exists
\* stays, and its status changes only from 'pending' to 'approved' or from
\* 'pending' to 'denied'.
C1_StatusOnlyLeavesPending ==
    [][\A id \in Ids :
         uploads[id] # NoRow =>
           /\ uploads'[id] # NoRow
           /\ uploads'[id].status # uploads[id].status =>
                /\ uploads[id].status = "pending"
                /\ uploads'[id].status \in {"approved", "denied"}]_vars

\* a deny has been answered on an upload that is approved, and the upload
\* is still approved
C1_Witness ==
    \E p \in Procs :
      /\ Done(p, "deny")
      /\ req[p].upload # NoRow
      /\ req[p].upload.status = "approved"
      /\ uploads[req[p].id].status = "approved"

\* C2: a review request that finds the upload already approved or denied is
\* answered 'Upload already processed' and has moved or deleted no file,
\* updated no row, triggered no scan and sent no notification.
C2_SecondReviewRejected ==
    \A p \in Procs :
      (Review(p) /\ req[p].upload # NoRow /\ req[p].upload.status # "pending") =>
        /\ req[p].resp = "already_processed_400"
        /\ req[p].fx = {}
        /\ req[p].scan = "none" /\ req[p].notified = "none"
        /\ uploads[req[p].id] = req[p].upload

\* a second approve is answered on an upload that an earlier request approved
C2_Witness ==
    \E p \in Procs :
      /\ Done(p, "approve")
      /\ req[p].resp = "already_processed_400"
      /\ req[p].upload.status = "approved"
      /\ succeeded[req[p].id] = 1

\* C3: of the review requests on one upload id, at most one is answered
\* with success, however their steps interleave.
C3_AtMostOneSuccess ==
    \A id \in Ids : succeeded[id] <= 1

\* C4: a step that writes status 'approved' to a row is the UPDATE of an
\* approve request on that row whose own shutil.move succeeded.
C4_ApprovedOnlyAfterMove ==
    [][\A id \in Ids :
         (/\ uploads'[id] # uploads[id]
          /\ uploads'[id] # NoRow
          /\ uploads'[id].status = "approved") =>
           \E p \in Procs :
             /\ pc[p] = "a_update" /\ pc'[p] = "done"
             /\ req[p].handler = "approve" /\ req[p].id = id
             /\ req[p].src = "moved"
             /\ "move" \in req[p].fx]_vars

\* an approve has been answered with success, the row is approved and the
\* file is in the Plex directory, while another approve of the same upload
\* is about to find the source gone
C4_Witness ==
    \E p \in Procs, q \in Procs :
      /\ Done(p, "approve") /\ req[p].resp = "ok"
      /\ uploads[req[p].id].status = "approved"
      /\ DestPath(req[p].upload) \in DOMAIN plexFiles
      /\ pc[q] = "a_move" /\ req[q].id = req[p].id

\* C5: an approve whose move fails (the source is missing, or the move
\* raises for another reason) is answered 'Failed to move file'; the row is
\* still pending with no reviewed_date, and the request has updated nothing,
\* triggered no scan and sent no notification.
C5_MoveFailureLeavesPending ==
    \A p \in Procs :
      Done(p, "approve") =>
        /\ req[p].src \in {"absent", "kept"} <=> req[p].resp = "move_failed_500"
        /\ req[p].resp = "move_failed_500" =>
             /\ uploads[req[p].id].status = "pending"
             /\ uploads[req[p].id].reviewed_date = NoDate
             /\ req[p].fx = {}
             /\ req[p].scan = "none" /\ req[p].notified = "none"
             /\ Reviewable(uploads[req[p].id])

\* an approve found the source file missing and was answered with the error
C5_Witness ==
    \E p \in Procs :
      /\ Done(p, "approve")
      /\ req[p].src = "absent"
      /\ req[p].resp = "move_failed_500"
      /\ SourcePath(req[p].upload) \notin pendingFiles

\* C6: a deny that finds the file already gone from the pending directory is
\* answered with success, and the row is denied with a reviewed_date and the
\* notes of the request.
C6_DenyToleratesMissingFile ==
    \A p \in Procs :
      (Done(p, "deny") /\ req[p].src = "absent") =>
        /\ req[p].resp = "ok"
        /\ uploads[req[p].id].status = "denied"
        /\ uploads[req[p].id].reviewed_date # NoDate
        /\ uploads[req[p].id].notes = req[p].notes

\* a deny found no file to delete and has been answered
C6_Witness ==
    \E p \in Procs :
      /\ Done(p, "deny")
      /\ req[p].src = "absent"
      /\ req[p].upload.status = "pending"
      /\ "delete" \notin req[p].fx

\* C7: whenever a deny is answered with success, the upload's file is no
\* longer in the pending directory, the row is denied and its notes are the
\* notes of the request.
C7_DeniedFileIsGone ==
    \A p \in Procs :
      (Done(p, "deny") /\ req[p].resp = "ok") =>
        /\ SourcePath(req[p].upload) \notin pendingFiles
        /\ uploads[req[p].id].status = "denied"
        /\ uploads[req[p].id].notes = req[p].notes

\* The extension rule as the claim words it: no '.' at all, or the text
\* after the last '.' is, in lower case, none of the video containers.
Disallowed(filename) ==
    \/ Len(filename) = 1
    \/ Lower(filename[Len(filename)]) \notin allowed_extensions

\* C8: an upload whose filename has a disallowed extension or no '.' is
\* answered with a 400 error, has saved no file and inserted no row; no row
\* ever carries such a filename.
C8_BadExtensionRejected ==
    /\ [](\A p \in Procs :
            (Done(p, "upload") /\ Disallowed(req[p].filename)) =>
              /\ req[p].resp \in {"type_not_allowed_400", "no_file_400"}
              /\ req[p].fx = {}
              /\ req[p].id \notin Ids)
    /\ [](\A p \in Procs :
            (req[p].handler = "upload" /\ pc[p] # "done") =>
              ~Disallowed(req[p].filename))
    /\ [](\A id \in Ids :
            uploads[id] # NoRow => ~Disallowed(uploads[id].original_filename))
    /\ [][\A p \in Procs :
            (pc[p] # "done" /\ pc'[p] = "done" /\ req'[p].handler = "upload"
               /\ Disallowed(req'[p].filename)) =>
              UNCHANGED <<uploads, pendingFiles, plexFiles, next_uuid>>]_vars

\* an upload named Movie.mkv.txt has been answered 'File type not allowed'
C8_Witness ==
    \E p \in Procs :
      /\ Done(p, "upload")
      /\ req[p].filename = <<"Movie", "mkv", "txt">>
      /\ req[p].resp = "type_not_allowed_400"

\* C9: an upload whose save fails is answered with an error and has no row;
\* a row is only ever inserted by an upload request whose save succeeded.
C9_RowOnlyAfterSave ==
    /\ [](\A p \in Procs :
            (Done(p, "upload") /\ req[p].resp = "save_failed_500") =>
              /\ uploads[req[p].id] = NoRow
              /\ req[p].fx = {})
    /\ [][\A id \in Ids :
            (uploads[id] = NoRow /\ uploads'[id] # NoRow) =>
              \E p \in Procs :
                /\ pc[p] = "u_insert" /\ req[p].id = id
                /\ "save" \in req[p].fx
                /\ UploadPath(req[p]) = SourcePath(uploads'[id])]_vars

\* an upload whose save failed has been answered
C9_Witness ==
    \E p \in Procs :
      /\ Done(p, "upload")
      /\ req[p].resp = "save_failed_500"
      /\ uploads[req[p].id] = NoRow

\* C10: an upload one of whose notifications failed is still answered with
\* success and its id; its row is there and pending, and its file is in the
\* pending directory.
C10_NotificationFailureSwallowed ==
    \A p \in Procs :
      (Done(p, "upload") /\ req[p].notified = "failed") =>
        /\ req[p].resp = "ok"
        /\ req[p].id \in Ids
        /\ uploads[req[p].id] # NoRow
        /\ uploads[req[p].id].status = "pending"
        /\ UploadPath(req[p]) \in pendingFiles

\* an upload has been answered after a notification of it failed
C10_Witness ==
    \E p \in Procs :
      /\ Done(p, "upload")
      /\ req[p].notified = "failed"
      /\ "notify" \in req[p].fx

\* C11: an approve that committed its UPDATE and whose Plex scan or
\* notification then failed is still answered with success; the row is
\* approved with its review date, the file is at its Plex destination and
\* no longer in the pending directory.
C11_ApprovalNotRolledBack ==
    \A p \in Procs :
      (Done(p, "approve") /\ "update" \in req[p].fx
         /\ (req[p].scan = "failed" \/ req[p].notified = "failed")) =>
        /\ req[p].resp = "ok"
        /\ uploads[req[p].id].status = "approved"
        /\ uploads[req[p].id].reviewed_date # NoDate
        /\ DestPath(req[p].upload) \in DOMAIN plexFiles
        /\ SourcePath(req[p].upload) \notin pendingFiles

\* an approve whose scan and whose notification both failed has been answered
C11_Witness ==
    \E p \in Procs :
      /\ Done(p, "approve")
      /\ req[p].scan = "failed"
      /\ req[p].notified = "failed"
      /\ uploads[req[p].id].status = "approved"

\* C12: reviewed_date is unset exactly while the status is 'pending', and a
\* reviewed_date that is set is never written again, whatever the
\* interleaving of the review requests.
C12_ReviewedDateWrittenOnce ==
    /\ [](\A id \in Ids :
            uploads[id] # NoRow =>
              (uploads[id].reviewed_date = NoDate <=> uploads[id].status = "pending"))
    /\ [][\A id \in Ids :
            (uploads[id] # NoRow /\ uploads[id].reviewed_date # NoDate) =>
              /\ uploads'[id] # NoRow
              /\ uploads'[id].reviewed_date = uploads[id].reviewed_date]_vars

\* C13: a row whose notes are set is denied.
C13_NotesOnlyOnDenied ==
    \A id \in Ids :
      (uploads[id] # NoRow /\ uploads[id].notes # NULL) => uploads[id].status = "denied"

\* a review request is taken from the queue in this step
Begins(p) == pc[p] = "idle" /\ pc'[p] # "idle" /\ req'[p].handler \in {"approve", "deny"}

\* C14: a review request made while the session has no admin_logged_in is
\* answered with the redirect to the login page at once and changes no row,
\* no file and no count of scans or notifications; a session that was never
\* logged in, whose last login failed or that was logged out has no
\* admin_logged_in; no review request gets past the decorator otherwise.
C14_ReviewNeedsAdmin ==
    /\ [](session.last \in {"none", "login_failed", "logout"} => ~session.admin_logged_in)
    /\ [](\A p \in Procs :
            (Review(p) /\ req[p].resp = "login_redirect_302") =>
              /\ req[p].fx = {} /\ req[p].src = "unseen"
              /\ req[p].scan = "none" /\ req[p].notified = "none")
    /\ [][\A p \in Procs :
            (Begins(p) /\ ~session.admin_logged_in) =>
              /\ pc'[p] = "done"
              /\ req'[p].resp = "login_redirect_302"
              /\ UNCHANGED <<uploads, pendingFiles, plexFiles, succeeded, effects>>]_vars
    /\ [][\A p \in Procs :
            (Begins(p) /\ req'[p].resp = "login_redirect_302") =>
              ~session.admin_logged_in]_vars

\* a deny of a pending upload is answered with the redirect after a logout
C14_Witness ==
    \E p \in Procs :
      /\ Done(p, "deny")
      /\ req[p].resp = "login_redirect_302"
      /\ session.last = "logout"
      /\ uploads[req[p].id] # NoRow
      /\ uploads[req[p].id].status = "pending"

\* C15: a review request by a logged-in admin on an id that has no row is
\* answered 'Upload not found' at once; it creates and changes no row, moves
\* and deletes no file, and triggers no scan and no notification.
C15_NotFoundNoSideEffects ==
    /\ [](\A p \in Procs :
            (Review(p) /\ req[p].resp = "not_found_404") =>
              /\ uploads[req[p].id] = NoRow
              /\ req[p].fx = {} /\ req[p].src = "unseen"
              /\ req[p].scan = "none" /\ req[p].notified = "none")
    /\ [][\A p \in Procs :
            (Begins(p) /\ session.admin_logged_in /\ uploads[req'[p].id] = NoRow) =>
              /\ pc'[p] = "done"
              /\ req'[p].resp = "not_found_404"
              /\ UNCHANGED <<uploads, pendingFiles, plexFiles, succeeded, effects>>]_vars

\* an approve of an id without a row has been answered 'Upload not found'
\* while another upload has its row
C15_Witness ==
    \E p \in Procs :
      /\ Done(p, "approve")
      /\ req[p].resp = "not_found_404"
      /\ uploads[req[p].id] = NoRow
      /\ \E id \in Ids : uploads[id] # NoRow

\* the upload requests that have their id and have not been answered
Uploading == {p \in Procs : req[p].handler = "upload" /\ pc[p] \in {"u_save", "u_insert"}}

\* C16: uploads in progress have distinct ids and distinct target paths, and
\* the path an upload is about to save to holds no file; rows of different
\* ids have different stored filenames, every row's stored filename carries
\* its own id, and every file in a pending directory belongs to one id; an
\* upload answered with success has the row of its id.
C16_DistinctIdsAndFiles ==
    /\ \A p, q \in Uploading :
         p # q => /\ req[p].id # req[q].id
                  /\ UploadPath(req[p]) # UploadPath(req[q])
    /\ \A p \in Procs :
         (req[p].handler = "upload" /\ pc[p] = "u_save") =>
           /\ UploadPath(req[p]) \notin pendingFiles
           /\ uploads[req[p].id] = NoRow
    /\ \A p \in Uploading, id \in Ids :
         uploads[id] # NoRow => UploadPath(req[p]) # SourcePath(uploads[id])
    /\ \A i, j \in Ids :
         (i # j /\ uploads[i] # NoRow /\ uploads[j] # NoRow) =>
           /\ uploads[i].filename # uploads[j].filename
           /\ SourcePath(uploads[i]) # SourcePath(uploads[j])
    /\ \A i \in Ids : uploads[i] # NoRow => uploads[i].filename.token = i
    /\ \A f \in pendingFiles : f.token \in Ids /\ f.token < next_uuid
    /\ \A p \in Procs :
         (Done(p, "upload") /\ req[p].resp = "ok") =>
           /\ req[p].id \in Ids
           /\ uploads[req[p].id] # NoRow
           /\ SourcePath(uploads[req[p].id]) = UploadPath(req[p])

\* two uploads of the same original filename and media type have their rows
\* and their files side by side in the pending directory
C16_Witness ==
    \E i, j \in Ids :
      /\ i # j
      /\ uploads[i] # NoRow /\ uploads[j] # NoRow
      /\ uploads[i].original_filename = uploads[j].original_filename
      /\ uploads[i].media_type = uploads[j].media_type
      /\ SourcePath(uploads[i]) \in pendingFiles
      /\ SourcePath(uploads[j]) \in pendingFiles
      /\ \E p \in Procs : Done(p, "upload") /\ req[p].resp = "ok"

\* the two enum values of media_type
MediaTypes == {"movie", "tv"}

\* C17: the media_type of every row is 'movie' or 'tv', a review never
\* changes it, and the review handlers look for the file in the pending
\* directory the upload saved it in.
C17_MediaTypeIsEnum ==
    /\ [](\A id \in Ids : uploads[id] # NoRow => uploads[id].media_type \in MediaTypes)
    /\ [](\A p \in Procs :
            (Done(p, "upload") /\ req[p].resp = "ok") =>
              SourcePath(uploads[req[p].id]).dir = UploadPath(req[p]).dir)
    /\ [][\A id \in Ids :
            uploads[id] # NoRow =>
              uploads'[id] # NoRow /\ uploads'[id].media_type = uploads[id].media_type]_vars

\* C19: whatever the interleaving of the review requests on an upload, its
\* file is moved or deleted at most once, trigger_plex_scan is called for it
\* at most once, and a review notification is sent for it at most once.
C19_SideEffectsAtMostOnce ==
    \A id \in Ids :
      /\ effects[id].file_ops <= 1
      /\ effects[id].scans <= 1
      /\ effects[id].notifications <= 1

\* C18: every request that has been taken up is answered in the end, also
\* when a server never answers.
C18_EveryRequestAnswered ==
    \A p \in Procs : (pc[p] # "idle") ~> (pc[p] \in {"done", "idle"})

\* C20: with the handlers of routes.py called one after the other, a row
\* that exists stays, its status changes only from 'pending' to 'approved'
\* or to 'denied', and a call on a row that is not pending changes neither
\* its status nor the count of its file operations, scans and notifications.
C20_RoutesStatusOnlyLeavesPending ==
    [][\A id \in Ids :
         uploads[id] # NoRow =>
           /\ uploads'[id] # NoRow
           /\ uploads'[id].status # uploads[id].status =>
                /\ uploads[id].status = "pending"
                /\ uploads'[id].status \in {"approved", "denied"}
           /\ uploads[id].status # "pending" =>
                /\ uploads'[id].status = uploads[id].status
                /\ effects'[id] = effects[id]]_vars

\* C21: with the handlers of routes.py, the rows of two uploads never refer
\* to the same file in a pending directory, and an upload never saves to a
\* path at which the pending file of an earlier upload lies.
C21_TimestampPrefixPreventsOverwrite ==
    /\ [](\A i, j \in Ids :
            (i # j /\ uploads[i] # NoRow /\ uploads[j] # NoRow) =>
              SourcePath(uploads[i]) # SourcePath(uploads[j]))
    /\ [][\A i \in Ids :
            (uploads[i] = NoRow /\ uploads'[i] # NoRow) =>
              SourcePath(uploads'[i]) \notin pendingFiles]_vars

\* C22: while must_change_password = 1, a review request is turned away
\* before its handler runs, so no upload is approved or denied until
\* admin_change_password has succeeded.
C22_DefaultPasswordMustBeChanged ==
    /\ [](admin.must_change_password = 1 =>
            \A id \in Ids :
              uploads[id] # NoRow => uploads[id].status = "pending")
    /\ [][\A p \in Procs :
            (Begins(p) /\ admin.must_change_password = 1) =>
              /\ pc'[p] = "done"
              /\ req'[p].resp = "login_redirect_302"]_vars

\* C25: must_change_password starts at 1; whenever it is 0 the stored hash
\* is not the hash of 'admin'; once 0 it stays 0; and the admin row changes
\* only when a logged-in session stores a new password of at least 6
\* characters other than 'admin', which clears the flag.
C25_ClearedFlagMeansChangedPassword ==
    /\ admin.must_change_password = 1
    /\ [](admin.must_change_password = 0 =>
            admin.password_hash # hash_password("admin"))
    /\ [][admin.must_change_password = 0 => admin'.must_change_password = 0]_vars
    /\ [][admin' # admin =>
            /\ session.admin_logged_in
            /\ admin'.must_change_password = 0
            /\ \E new_password \in NewPasswordInputs :
                 /\ Len(new_password) >= 6
                 /\ new_password # "admin"
                 /\ admin'.password_hash = hash_password(new_password)]_vars

\* the password was changed to 'letmein' and the flag is cleared
C25_Witness ==
    /\ admin.must_change_password = 0
    /\ admin.password_hash = hash_password("letmein")
    /\ session.admin_logged_in

\* C24: a request that has sent its notification has attempted every
\* channel the configuration enables (the uploader's email, each admin's
\* email, the Discord webhook), whichever of the sends failed.
C24_ChannelsIndependent ==
    \A p \in Procs :
      (pc[p] = "done" /\ "notify" \in req[p].fx) =>
        req[p].channels.attempted = req[p].channels.enabled

\* C23: the steps of an approve request are a prefix of move, update, scan,
\* notify in this order: nothing is done before the move, only the move is
\* done before the UPDATE, the row is not written by the step that moves
\* the file, scan and notification come after the UPDATE has made the row
\* 'approved', and a request answered with the login redirect, 'not found',
\* 'already processed' or the move failure has done none of the steps.
C23_ApproveStepOrder ==
    /\ [](\A p \in Procs :
            req[p].handler = "approve" =>
              /\ req[p].log \in {<<>>, <<"move">>, <<"move", "update", "scan", "notify">>}
              /\ pc[p] = "a_move" => req[p].log = <<>>
              /\ pc[p] = "a_update" => req[p].log = <<"move">>
              /\ (pc[p] = "done" /\ req[p].resp # "ok") =>
                    /\ req[p].resp \in {"login_redirect_302", "not_found_404",
                                        "already_processed_400", "move_failed_500"}
                    /\ req[p].log = <<>>
                    /\ req[p].scan = "none" /\ req[p].notified = "none"
              /\ (pc[p] = "done" /\ req[p].resp = "ok") =>
                    /\ req[p].log = <<"move", "update", "scan", "notify">>
                    /\ uploads[req[p].id].status = "approved")
    /\ [][\A p \in Procs :
            (pc[p] = "a_move" /\ pc'[p] # "a_move") => UNCHANGED uploads]_vars

\* an approve went through all four steps although the scan failed, while
\* another approve is about to move its file
C23_Witness ==
    \E p, q \in Procs :
      /\ Done(p, "approve") /\ req[p].resp = "ok"
      /\ req[p].log = <<"move", "update", "scan", "notify">>
      /\ req[p].scan = "failed"
      /\ req[q].handler = "approve" /\ pc[q] = "a_move"

\* C26: with requests on one upload id not overlapping, no step replaces or
\* removes the file an approved upload has in the Plex directory: the file
\* at its destination path stays the one that was uploaded for it.
C26_ApprovedFilesKept ==
    [][\A id \in Ids :
         (/\ uploads[id] # NoRow
          /\ uploads[id].status = "approved"
          /\ DestPath(uploads[id]) \in DOMAIN plexFiles
          /\ plexFiles[DestPath(uploads[id])] = uploads[id].filename.token) =>
           /\ DestPath(uploads[id]) \in DOMAIN plexFiles'
           /\ plexFiles'[DestPath(uploads[id])] = uploads[id].filename.token]_vars
====
